---------------------------- MODULE Spec2Model ----------------------------
(***************************************************************************)
(* A model of the businesses / reviews / photos REST handlers and of their *)
(* load-time table bootstrap.                                              *)
(*                                                                         *)
(* Request handlers are async functions: a handler runs atomically from    *)
(* one `await` of a database query to the next.  A request occupies a slot *)
(* of `req`; its `pc` names the query it is suspended on.  A query is      *)
(* executed by the database and its continuation run in one step.          *)
(* The handlers' `mysqlPool` is taken to be the mysql2/promise pool that   *)
(* connect() builds (src/lib/mysqlPool.js:1,15-26), on which query() and   *)
(* getConnection() return promises.                                        *)
(* Column values are taken to be well typed and non-null.                  *)
(* A response status of 404 stands for the handler calling next(), and     *)
(* Unanswered for a rejection that escapes the handler with no response.   *)
(***************************************************************************)
EXTENDS Integers, FiniteSets, Sequences, TLC

VARIABLES
  businesses,   \* rows of table businesses: [id, val]
  reviews,      \* rows of table reviews: [id, userid, businessid, val]
  photos,       \* rows of table photos: [id, userid, businessid, val]
  autoInc,      \* next AUTO_INCREMENT id of each table
  tables,       \* which tables exist
  fks,          \* which tables carry FOREIGN KEY (businessid) -> businesses(id)
  posted,       \* reviews.js:70, shared by all POST /reviews requests
  modified,     \* reviews.js:71, shared by all PUT /reviews requests
  req,          \* the requests in flight, one per slot
  served,       \* number of requests started so far
  deleted,      \* history: <<table, id>> pairs whose DELETE was answered 204
  dbUp,         \* whether the database accepts connections
  dbDropped,    \* history: the database went down after having been up
  initPc,       \* position of each handler module's init()
  attempts,     \* connection attempts made by each module's loop()
  connected,    \* history: modules whose getConnection has resolved
  sleepMs       \* the pending sleep() of each module's loop(), in ms

vars == <<businesses, reviews, photos, autoInc, tables, fks, posted, modified,
          req, served, deleted, dbUp, dbDropped, initPc, attempts, connected,
          sleepMs>>

dataVars == <<businesses, reviews, photos, autoInc>>
startVars == <<tables, fks, dbUp, dbDropped, initPc, attempts, connected, sleepMs>>

(***************************************************************************)
(* Bounds of the model.                                                    *)
(***************************************************************************)
MaxServed == 3       \* requests started in one behaviour
MaxListRows == 21    \* rows of businesses when a listing starts: 0..MaxListRows
MaxAttempts == 2     \* the attempts counter saturates here (the loop does not stop)

Slots == {1, 2}      \* requests in flight at once
Users == {1, 2}      \* userid values of request bodies
BizRefs == {1, 2}    \* businessid values of request bodies
IdParams == {1, 2}   \* id path parameters
Posted == "posted"       \* the remaining columns of a row as one payload:
Replaced == "replaced"   \* as a POST wrote them, as a PUT replaced them
Modules == {"reviews", "photos", "businesses"}

Unanswered == 0 - 1  \* the handler's promise rejected before any res.status()
NotFound == 404      \* next(): the outer layer's not-found path

(***************************************************************************)
(* lib/validation.js (not in src/): a body is valid iff every field the    *)
(* schema marks required is present.                                       *)
(***************************************************************************)
validateAgainstSchema(fields, schema) ==
  \A f \in DOMAIN schema : schema[f] => f \in fields

reviewSchema ==
  [userid |-> TRUE, businessid |-> TRUE, dollars |-> TRUE, stars |-> TRUE,
   review |-> FALSE]

photoSchema == [userid |-> TRUE, businessid |-> TRUE, caption |-> FALSE]

businessSchema ==
  [ownerid |-> TRUE, name |-> TRUE, address |-> TRUE, city |-> TRUE,
   state |-> TRUE, zip |-> TRUE, phone |-> TRUE, category |-> TRUE,
   subcategory |-> TRUE, website |-> FALSE, email |-> FALSE]

\* Request bodies: the required fields only, every schema field plus an
\* unknown one, or one required field missing.
Required(schema) == {f \in DOMAIN schema : schema[f]}

BodyShapes(schema) ==
  {Required(schema), DOMAIN schema \cup {"id"}}
    \cup {Required(schema) \ {f} : f \in Required(schema)}

(***************************************************************************)
(* The database.                                                           *)
(***************************************************************************)
BizIds == {b.id : b \in businesses}

\* InnoDB rejects a child row whose businessid has no parent once the
\* constraint of reviews.js:49-52 / photos.js:47-50 is in place.
FkAllows(t, bid) == (t \in fks) => (bid \in BizIds)

\* ... and rejects deleting a parent row that a child still references.
Referenced(bid) ==
  \/ "reviews" \in fks /\ \E r \in reviews : r.businessid = bid
  \/ "photos" \in fks /\ \E p \in photos : p.businessid = bid

RowsWithId(tbl, id) == {r \in tbl : r.id = id}

SkipDelete(tbl, hit) == tbl

\* DELETE FROM <table> WHERE id = ?
RemoveRows(tbl, hit) == tbl \ hit

(***************************************************************************)
(* Request slots.  A slot is free when it holds no request or one that has *)
(* been answered; a new request takes the first free slot, and the         *)
(* answered requests are forgotten when it arrives.                        *)
(***************************************************************************)
IdleReq ==
  [kind |-> "idle", pc |-> "idle", id |-> 0, uid |-> 0, bid |-> 0, val |-> "",
   status |-> 0, alone |-> TRUE, pre |-> FALSE, dup |-> FALSE,
   dbErr |-> FALSE, wrote |-> FALSE,
   nan |-> FALSE, asked |-> 0, page |-> 0, count1 |-> 0 - 1, count |-> 0, totalPages |-> 0,
   pageSize |-> 0, offset |-> 0, rows |-> 0, newId |-> 0,
   added |-> 0]

Free(s) == req[s].pc \in {"idle", "done"}
InFlight(s) == ~Free(s)
OthersQuiet(s) == \A o \in Slots \ {s} : Free(o)

\* A request enters slot s; every request already in flight is no longer alone.
Enter(s, r) ==
  /\ Free(s)
  /\ \A o \in Slots : o < s => InFlight(o)
  /\ served < MaxServed
  /\ served' = served + 1
  /\ req' = [o \in Slots |->
               IF o = s THEN [r EXCEPT !.alone = OthersQuiet(s)]
               ELSE IF InFlight(o) THEN [req[o] EXCEPT !.alone = FALSE]
               ELSE IdleReq]

Respond(s, code) == [req[s] EXCEPT !.pc = "done", !.status = code]

(***************************************************************************)
(* reviews.js                                                              *)
(***************************************************************************)
\* The shared flags hold "undefined", "true", "false" or "promise".
Truthy(v) == v \notin {"undefined", "false"}
JsBool(b) == IF b THEN "true" ELSE "false"

SamePair(userID, businessID) ==
  {r \in reviews : r.userid = userID /\ r.businessid = businessID}

checkUserReviewCountOffByOne(userID, businessID) ==
  Cardinality(SamePair(userID, businessID)) >= 2

\* reviews.js:99-111
checkUserReviewCount(userID, businessID) ==
  Cardinality(SamePair(userID, businessID)) >= 1

\* reviews.js:81-91 and 171-180: the catch block reads the shared flag.
CatchStatus(flag) == IF Truthy(flag) THEN 403 ELSE 500

\* reviews.js:76-79,93-97,114-116: validate, then suspend on the COUNT query.
RevPostStart(s, fields) ==
  /\ IF validateAgainstSchema(fields, reviewSchema)
     THEN \E u \in Users, b \in BizRefs :
            Enter(s, [IdleReq EXCEPT !.kind = "revPost", !.pc = "count",
                                     !.uid = u, !.bid = b, !.val = Posted,
                                     !.pre = (SamePair(u, b) # {})])
     ELSE Enter(s, [IdleReq EXCEPT !.kind = "revPost", !.pc = "done",
                                   !.status = 400])
  /\ UNCHANGED <<dataVars, posted, modified, deleted, startVars>>

\* reviews.js:116-122: the COUNT resolves; posted is assigned; throw or INSERT.
\* `throw err` names no binding in scope: a ReferenceError reaches the catch.
RevPostCount(s, fail) ==
  /\ req[s].kind = "revPost" /\ req[s].pc = "count"
  /\ IF fail
     THEN /\ req' = [req EXCEPT ![s] = Respond(s, CatchStatus(posted))]
          /\ UNCHANGED posted
     ELSE LET p == checkUserReviewCount(req[s].uid, req[s].bid)
          IN /\ posted' = JsBool(p)
             /\ req' = [req EXCEPT ![s] =
                  IF p
                  THEN [Respond(s, CatchStatus(JsBool(p))) EXCEPT !.dup = TRUE]
                  ELSE [req[s] EXCEPT !.pc = "insert"]]
  /\ UNCHANGED <<dataVars, modified, served, deleted, startVars>>

\* reviews.js:121-125,80: the INSERT resolves.
RevPostInsert(s, fail) ==
  /\ req[s].kind = "revPost" /\ req[s].pc = "insert"
  /\ IF fail \/ ~FkAllows("reviews", req[s].bid)
     THEN /\ req' = [req EXCEPT ![s] =
                       [Respond(s, CatchStatus(posted)) EXCEPT !.dbErr = TRUE]]
          /\ UNCHANGED <<reviews, autoInc>>
     ELSE /\ reviews' = reviews \cup
               {[id |-> autoInc.reviews, userid |-> req[s].uid,
                 businessid |-> req[s].bid, val |-> req[s].val]}
          /\ autoInc' = [autoInc EXCEPT !.reviews = @ + 1]
          /\ req' = [req EXCEPT ![s] =
                       [Respond(s, 201) EXCEPT !.newId = autoInc.reviews,
                                               !.wrote = TRUE]]
  /\ UNCHANGED <<businesses, photos, posted, modified, served, deleted, startVars>>

\* reviews.js:188-200: what the edit check resolves to ("true" = differs);
\* it rejects when no row has the id.
checkReviewEditParams(reviewID, u, b) ==
  LET result == RowsWithId(reviews, reviewID)
  IN IF result = {} THEN "rejected"
     ELSE JsBool(~(\E r \in result : r.userid = u /\ r.businessid = b))

\* reviews.js:204: the call is not awaited, so modified holds the promise.
EditCheckValue(reviewID, u, b) == "promise"

\* reviews.js:161-165,182-186,202-214
RevPutStart(s, id, fields) ==
  /\ IF validateAgainstSchema(fields, reviewSchema)
     THEN \E u \in Users, b \in BizRefs :
            LET r0 == [IdleReq EXCEPT !.kind = "revPut", !.id = id, !.uid = u,
                          !.bid = b, !.val = Replaced,
                          !.pre = (checkReviewEditParams(id, u, b) = "true")]
                m == EditCheckValue(id, u, b)
            IN /\ modified' = m
               /\ IF Truthy(m)
                  THEN Enter(s, [r0 EXCEPT !.pc = "update"])
                  ELSE Enter(s, [r0 EXCEPT !.pc = "done",
                                           !.status = CatchStatus(m)])
     ELSE /\ Enter(s, [IdleReq EXCEPT !.kind = "revPut", !.id = id,
                                      !.pc = "done", !.status = 400])
          /\ UNCHANGED modified
  /\ UNCHANGED <<dataVars, posted, deleted, startVars>>

\* reviews.js:207-211,166-180: the UPDATE resolves.
RevPutUpdate(s, fail) ==
  /\ req[s].kind = "revPut" /\ req[s].pc = "update"
  /\ LET hit == RowsWithId(reviews, req[s].id)
     IN IF fail \/ (hit # {} /\ ~FkAllows("reviews", req[s].bid))
        THEN /\ req' = [req EXCEPT ![s] =
                          [Respond(s, CatchStatus(modified)) EXCEPT !.dbErr = TRUE]]
             /\ UNCHANGED reviews
        ELSE /\ reviews' = (reviews \ hit) \cup
                  {[r EXCEPT !.userid = req[s].uid, !.businessid = req[s].bid,
                             !.val = req[s].val] : r \in hit}
             /\ req' = [req EXCEPT ![s] =
                          [Respond(s, IF hit # {} THEN 200 ELSE NotFound)
                             EXCEPT !.wrote = (reviews' # reviews)]]
  /\ UNCHANGED <<businesses, photos, autoInc, posted, modified, served, deleted,
                 startVars>>

\* reviews.js:222-246
RevDel(s, id, fail) ==
  /\ LET hit == RowsWithId(reviews, id)
         r0 == [IdleReq EXCEPT !.kind = "revDel", !.pc = "done", !.id = id,
                               !.pre = (hit # {})]
     IN IF fail
        THEN /\ Enter(s, [r0 EXCEPT !.status = 500, !.dbErr = TRUE])
             /\ UNCHANGED <<reviews, deleted>>
        ELSE /\ reviews' = RemoveRows(reviews, hit)
             /\ Enter(s, [r0 EXCEPT !.status = IF hit # {} THEN 204 ELSE NotFound,
                                    !.wrote = (hit # {})])
             /\ deleted' = IF hit # {} THEN deleted \cup {<<"reviews", id>>}
                           ELSE deleted
  /\ UNCHANGED <<businesses, photos, autoInc, posted, modified, startVars>>

\* reviews.js:132-156
RevGet(s, id, fail) ==
  /\ LET r0 == [IdleReq EXCEPT !.kind = "revGet", !.pc = "done", !.id = id,
                               !.pre = (<<"reviews", id>> \in deleted)]
     IN Enter(s, IF fail THEN [r0 EXCEPT !.status = 500, !.dbErr = TRUE]
                 ELSE [r0 EXCEPT !.status =
                         IF RowsWithId(reviews, id) # {} THEN 200 ELSE NotFound])
  /\ UNCHANGED <<dataVars, posted, modified, deleted, startVars>>

(***************************************************************************)
(* photos.js                                                               *)
(***************************************************************************)
\* photos.js:70-95
PhPost(s, fields, fail) ==
  /\ IF ~validateAgainstSchema(fields, photoSchema)
     THEN /\ Enter(s, [IdleReq EXCEPT !.kind = "phPost", !.pc = "done",
                                      !.status = 400])
          /\ UNCHANGED <<photos, autoInc>>
     ELSE \E u \in Users, b \in BizRefs :
            LET r0 == [IdleReq EXCEPT !.kind = "phPost", !.pc = "done",
                                      !.uid = u, !.bid = b]
            IN IF fail \/ ~FkAllows("photos", b)
               THEN /\ Enter(s, [r0 EXCEPT !.status = 500, !.dbErr = TRUE])
                    /\ UNCHANGED <<photos, autoInc>>
               ELSE /\ photos' = photos \cup
                         {[id |-> autoInc.photos, userid |-> u,
                           businessid |-> b, val |-> Posted]}
                    /\ autoInc' = [autoInc EXCEPT !.photos = @ + 1]
                    /\ Enter(s, [r0 EXCEPT !.status = 201, !.wrote = TRUE,
                                           !.newId = autoInc.photos])
  /\ UNCHANGED <<businesses, reviews, posted, modified, deleted, startVars>>

\* photos.js:101-124
PhGet(s, id, fail) ==
  /\ LET r0 == [IdleReq EXCEPT !.kind = "phGet", !.pc = "done", !.id = id,
                               !.pre = (<<"photos", id>> \in deleted)]
     IN Enter(s, IF fail THEN [r0 EXCEPT !.status = 500, !.dbErr = TRUE]
                 ELSE [r0 EXCEPT !.status =
                         IF RowsWithId(photos, id) # {} THEN 200 ELSE NotFound])
  /\ UNCHANGED <<dataVars, posted, modified, deleted, startVars>>

\* photos.js:164-188
PhDel(s, id, fail) ==
  /\ LET hit == RowsWithId(photos, id)
         r0 == [IdleReq EXCEPT !.kind = "phDel", !.pc = "done", !.id = id,
                               !.pre = (hit # {})]
     IN IF fail
        THEN /\ Enter(s, [r0 EXCEPT !.status = 500, !.dbErr = TRUE])
             /\ UNCHANGED <<photos, deleted>>
        ELSE /\ photos' = RemoveRows(photos, hit)
             /\ Enter(s, [r0 EXCEPT !.status = IF hit # {} THEN 204 ELSE NotFound,
                                    !.wrote = (photos' = photos \ hit /\ hit # {})])
             /\ deleted' = IF hit # {} THEN deleted \cup {<<"photos", id>>}
                           ELSE deleted
  /\ UNCHANGED <<businesses, reviews, autoInc, posted, modified, startVars>>

(***************************************************************************)
(* businesses.js                                                           *)
(***************************************************************************)
numPerPage == 10

\* Math.ceil(count / numPerPage) on non-negative integers
Ceil(count, size) == (count + size - 1) \div size

ClampNoLowerBound(page, lastPage) == IF page > lastPage THEN lastPage ELSE page

\* businesses.js:94-95 and 125-126: two assignments, in this order
Clamp(page, lastPage) ==
  LET p1 == IF page > lastPage THEN lastPage ELSE page
  IN IF p1 < 1 THEN 1 ELSE p1

\* businesses.js:90: parseInt(req.query.page) || 1; NaN and 0 are falsy
PageOrDefault(nan, n) == IF nan \/ n = 0 THEN 1 ELSE n

Min(a, b) == IF a < b THEN a ELSE b
Max(a, b) == IF a > b THEN a ELSE b

\* SELECT ... ORDER BY id LIMIT offset, pageSize: how many rows come back
LimitRows(n, offset, size) == Min(size, Max(0, n - offset))

\* businesses.js:84-92: the first COUNT is awaited outside the try block
BizListStart(s, nan, n) ==
  /\ Enter(s, [IdleReq EXCEPT !.kind = "bizList", !.pc = "count1",
                              !.nan = nan, !.asked = n,
                              !.page = PageOrDefault(nan, n)])
  /\ UNCHANGED <<dataVars, posted, modified, deleted, startVars>>

\* businesses.js:92-98,109-115
BizListCount1(s, fail) ==
  /\ req[s].kind = "bizList" /\ req[s].pc = "count1"
  /\ req' = [req EXCEPT ![s] =
       IF fail THEN [Respond(s, Unanswered) EXCEPT !.dbErr = TRUE]
       ELSE LET count == Cardinality(businesses)
                lastPage == Ceil(count, numPerPage)
            IN [req[s] EXCEPT !.pc = "count2", !.page = Clamp(@, lastPage),
                              !.count1 = count]]
  /\ UNCHANGED <<dataVars, posted, modified, served, deleted, startVars>>

\* businesses.js:120-132
BizListCount2(s, fail) ==
  /\ req[s].kind = "bizList" /\ req[s].pc = "count2"
  /\ req' = [req EXCEPT ![s] =
       IF fail THEN [Respond(s, 500) EXCEPT !.dbErr = TRUE]
       ELSE LET count == Cardinality(businesses)
                pageSize == numPerPage
                lastPage == Ceil(count, pageSize)
                page == Clamp(req[s].page, lastPage)
            IN [req[s] EXCEPT !.pc = "select", !.page = page, !.count = count,
                              !.totalPages = lastPage, !.pageSize = pageSize,
                              !.offset = (page - 1) * pageSize]]
  /\ UNCHANGED <<dataVars, posted, modified, served, deleted, startVars>>

\* businesses.js:129-140,99-103
BizListSelect(s, fail) ==
  /\ req[s].kind = "bizList" /\ req[s].pc = "select"
  /\ req' = [req EXCEPT ![s] =
       IF fail THEN [Respond(s, 500) EXCEPT !.dbErr = TRUE]
       ELSE [Respond(s, 200) EXCEPT
               !.rows = LimitRows(Cardinality(businesses), req[s].offset,
                                  req[s].pageSize)]]
  /\ UNCHANGED <<dataVars, posted, modified, served, deleted, startVars>>

BizBodyAlwaysOk(fields, schema) == TRUE

\* businesses.js:148: the body passes when every required field is present
BizBodyOk(fields, schema) == validateAgainstSchema(fields, schema)

\* businesses.js:147-172
BizPost(s, fields, fail) ==
  /\ LET r0 == [IdleReq EXCEPT !.kind = "bizPost", !.pc = "done",
                   !.pre = (Required(businessSchema) \subseteq fields)]
     IN IF ~BizBodyOk(fields, businessSchema)
        THEN /\ Enter(s, [r0 EXCEPT !.status = 400])
             /\ UNCHANGED <<businesses, autoInc>>
        ELSE IF fail
        THEN /\ Enter(s, [r0 EXCEPT !.status = 500, !.dbErr = TRUE])
             /\ UNCHANGED <<businesses, autoInc>>
        ELSE /\ businesses' = businesses \cup
                  {[id |-> autoInc.businesses, val |-> Posted]}
             /\ autoInc' = [autoInc EXCEPT !.businesses = @ + 1]
             /\ Enter(s, [r0 EXCEPT !.status = 201, !.wrote = TRUE,
                                    !.newId = autoInc.businesses,
                                    !.added = Cardinality(businesses') -
                                              Cardinality(businesses)])
  /\ UNCHANGED <<reviews, photos, posted, modified, deleted, startVars>>

\* businesses.js:177-205
BizGet(s, id, fail) ==
  /\ LET r0 == [IdleReq EXCEPT !.kind = "bizGet", !.pc = "done", !.id = id,
                               !.pre = (<<"businesses", id>> \in deleted)]
     IN Enter(s, IF fail THEN [r0 EXCEPT !.status = 500, !.dbErr = TRUE]
                 ELSE [r0 EXCEPT !.status =
                         IF RowsWithId(businesses, id) # {} THEN 200 ELSE NotFound])
  /\ UNCHANGED <<dataVars, posted, modified, deleted, startVars>>

\* businesses.js:210-240
BizPut(s, id, fields, fail) ==
  /\ LET r0 == [IdleReq EXCEPT !.kind = "bizPut", !.pc = "done", !.id = id]
         hit == RowsWithId(businesses, id)
     IN IF ~validateAgainstSchema(fields, businessSchema)
        THEN /\ Enter(s, [r0 EXCEPT !.status = 400])
             /\ UNCHANGED businesses
        ELSE IF fail
        THEN /\ Enter(s, [r0 EXCEPT !.status = 500, !.dbErr = TRUE])
             /\ UNCHANGED businesses
        ELSE /\ businesses' = (businesses \ hit) \cup
                                {[r EXCEPT !.val = Replaced] : r \in hit}
             /\ Enter(s, [r0 EXCEPT !.status = IF hit # {} THEN 200 ELSE NotFound])
  /\ UNCHANGED <<reviews, photos, autoInc, posted, modified, deleted, startVars>>

\* businesses.js:245-269
BizDel(s, id, fail) ==
  /\ LET hit == RowsWithId(businesses, id)
         r0 == [IdleReq EXCEPT !.kind = "bizDel", !.pc = "done", !.id = id,
                               !.pre = (hit # {}), !.dup = Referenced(id)]
     IN IF fail \/ (hit # {} /\ Referenced(id))
        THEN /\ Enter(s, [r0 EXCEPT !.status = 500, !.dbErr = TRUE])
             /\ UNCHANGED <<businesses, deleted>>
        ELSE /\ businesses' = RemoveRows(businesses, hit)
             /\ Enter(s, [r0 EXCEPT !.status = IF hit # {} THEN 204 ELSE NotFound,
                                    !.wrote = (businesses' = businesses \ hit
                                               /\ hit # {})])
             /\ deleted' = IF hit # {} THEN deleted \cup {<<"businesses", id>>}
                           ELSE deleted
  /\ UNCHANGED <<reviews, photos, autoInc, posted, modified, startVars>>

(***************************************************************************)
(* Initial states.  The handlers serve requests against tables that exist  *)
(* and hold the rows earlier requests left; the constraints are in place   *)
(* or not, as the bootstrap left them.                                     *)
(***************************************************************************)
BizRows(n) == {[id |-> i, val |-> Posted] : i \in 1..n}

Serving(nBiz, rv, ph, fkChoices) ==
  /\ businesses = BizRows(nBiz)
  /\ reviews = rv
  /\ photos = ph
  /\ autoInc = [businesses |-> nBiz + 1, reviews |-> Cardinality(rv) + 1,
                photos |-> Cardinality(ph) + 1]
  /\ tables = Modules
  /\ fks \in fkChoices
  /\ posted = "undefined"
  /\ modified = "undefined"
  /\ req = [s \in Slots |-> IdleReq]
  /\ served = 0
  /\ deleted = {}
  /\ dbUp = TRUE
  /\ dbDropped = FALSE
  /\ initPc = [m \in Modules |-> "done"]
  /\ attempts = [m \in Modules |-> 1]
  /\ connected = Modules
  /\ sleepMs = [m \in Modules |-> 0]

FkOutcomes == {{}, {"reviews", "photos"}}

(***************************************************************************)
(* The review requests, any number of them interleaved.  With Outage =     *)
(* {FALSE} every query reaches the database.                               *)
(***************************************************************************)
ReviewsInit == Serving(1, {}, {}, FkOutcomes)

ReviewsStep(Outage) ==
  \/ \E s \in Slots, f \in BodyShapes(reviewSchema) : RevPostStart(s, f)
  \/ \E s \in Slots, fail \in Outage : RevPostCount(s, fail)
  \/ \E s \in Slots, fail \in Outage : RevPostInsert(s, fail)
  \/ \E s \in Slots, id \in IdParams, f \in BodyShapes(reviewSchema) :
       RevPutStart(s, id, f)
  \/ \E s \in Slots, fail \in Outage : RevPutUpdate(s, fail)
  \/ \E s \in Slots, id \in IdParams, fail \in Outage : RevDel(s, id, fail)

NextReviews == ReviewsStep({FALSE})
NextReviewsErr == ReviewsStep(BOOLEAN)

SpecReviews == ReviewsInit /\ [][NextReviews]_vars
SpecReviewsErr == ReviewsInit /\ [][NextReviewsErr]_vars

(***************************************************************************)
(* The businesses requests.                                                *)
(***************************************************************************)
\* page query parameters: absent or not a number, and -1 .. 4
PageParams == {<<TRUE, 0>>} \cup {<<FALSE, n>> : n \in (0 - 1)..4}

\* ids a DELETE may name: the first rows, and the last row of a full page
ListDeleteIds == IdParams \cup {numPerPage + 1}

ListStep(Outage) ==
  \/ \E s \in Slots, p \in PageParams : BizListStart(s, p[1], p[2])
  \/ \E s \in Slots, fail \in Outage : BizListCount1(s, fail)
  \/ \E s \in Slots, fail \in Outage : BizListCount2(s, fail)
  \/ \E s \in Slots, fail \in Outage : BizListSelect(s, fail)
  \/ \E s \in Slots, f \in BodyShapes(businessSchema), fail \in Outage :
       BizPost(s, f, fail)
  \/ \E s \in Slots, id \in ListDeleteIds, fail \in Outage : BizDel(s, id, fail)

ListInit == \E n \in 0..MaxListRows : Serving(n, {}, {}, {{}})

NextList == ListStep({FALSE})

SpecList == ListInit /\ [][NextList]_vars

BusinessesInit == Serving(1, {}, {}, {{}})

NextBusinessesErr ==
  \/ ListStep(BOOLEAN)
  \/ \E s \in Slots, id \in IdParams, fail \in BOOLEAN : BizGet(s, id, fail)
  \/ \E s \in Slots, id \in IdParams, f \in BodyShapes(businessSchema),
        fail \in BOOLEAN : BizPut(s, id, f, fail)

SpecBusinessesErr == BusinessesInit /\ [][NextBusinessesErr]_vars

(***************************************************************************)
(* DELETE and GET of the three resources, with the creates that could      *)
(* bring an id back.  Business 1 is referenced by a review and a photo.    *)
(***************************************************************************)
CrudInit ==
  Serving(2, {[id |-> 1, userid |-> 1, businessid |-> 1, val |-> Posted]},
             {[id |-> 1, userid |-> 1, businessid |-> 1, val |-> Posted]},
          FkOutcomes)

NextCrud ==
  \/ \E s \in Slots, id \in IdParams : BizDel(s, id, FALSE)
  \/ \E s \in Slots, id \in IdParams : BizGet(s, id, FALSE)
  \/ \E s \in Slots, id \in IdParams : RevDel(s, id, FALSE)
  \/ \E s \in Slots, id \in IdParams : RevGet(s, id, FALSE)
  \/ \E s \in Slots, id \in IdParams : PhDel(s, id, FALSE)
  \/ \E s \in Slots, id \in IdParams : PhGet(s, id, FALSE)
  \/ \E s \in Slots, f \in BodyShapes(businessSchema) : BizPost(s, f, FALSE)
  \/ \E s \in Slots, f \in BodyShapes(photoSchema) : PhPost(s, f, FALSE)
  \/ \E s \in Slots, f \in BodyShapes(reviewSchema) : RevPostStart(s, f)
  \/ \E s \in Slots : RevPostCount(s, FALSE)
  \/ \E s \in Slots : RevPostInsert(s, FALSE)

SpecCrud == CrudInit /\ [][NextCrud]_vars

(***************************************************************************)
(* Load-time bootstrap: the three modules' init() run interleaved.         *)
(***************************************************************************)
SleepInterval == 2000

LoopExitsAlways(up) == TRUE

\* businesses.js:17-33: `await getConnection(...)` resolves when the pool
\* obtains a connection, and then `break` runs; a rejection reaches the
\* catch block, which sleeps.
LoopExits(up) == up

\* CREATE TABLE IF NOT EXISTS: an existing table keeps its rows
CreateIfNotExists(exists, rows) == IF exists THEN rows ELSE {}

Bump(n) == IF n < MaxAttempts THEN n + 1 ELSE n

reqVars == <<reviews, photos, autoInc, posted, modified, req, served, deleted>>

\* loop(): one getConnection attempt settles (businesses.js:15-35,
\* reviews.js:12-32, photos.js:12-32); on exit init() issues its CREATE.
Attempt(m) ==
  /\ initPc[m] = "connecting"
  /\ IF LoopExits(dbUp)
     THEN /\ initPc' = [initPc EXCEPT ![m] = "creating"]
          /\ connected' = IF dbUp THEN connected \cup {m} ELSE connected
          /\ UNCHANGED sleepMs
     ELSE /\ initPc' = [initPc EXCEPT ![m] = "sleeping"]
          /\ sleepMs' = [sleepMs EXCEPT ![m] = SleepInterval]
          /\ UNCHANGED connected
  /\ UNCHANGED <<businesses, tables, fks, dbUp, dbDropped, attempts, reqVars>>

\* the timer of sleep(2000) fires and the while (true) loop tries again
Wake(m) ==
  /\ initPc[m] = "sleeping"
  /\ initPc' = [initPc EXCEPT ![m] = "connecting"]
  /\ sleepMs' = [sleepMs EXCEPT ![m] = 0]
  /\ attempts' = [attempts EXCEPT ![m] = Bump(@)]
  /\ UNCHANGED <<businesses, tables, fks, dbUp, dbDropped, connected, reqVars>>

\* The CREATE TABLE of module m is executed.  reviews.js:37-52 and
\* photos.js:37-50 await it and then issue their ALTER without awaiting;
\* businesses.js:40-57 does not await its CREATE.
CreateDone(m) ==
  /\ initPc[m] = "creating"
  /\ IF dbUp
     THEN /\ tables' = tables \cup {m}
          /\ businesses' = IF m = "businesses"
                           THEN CreateIfNotExists(m \in tables, businesses)
                           ELSE businesses
          /\ initPc' = [initPc EXCEPT ![m] =
                          IF m = "businesses" THEN "done" ELSE "altering"]
     ELSE /\ initPc' = [initPc EXCEPT ![m] = "failed"]
          /\ UNCHANGED <<tables, businesses>>
  /\ UNCHANGED <<fks, dbUp, dbDropped, attempts, connected, sleepMs, reqVars>>

\* The ALTER TABLE ... ADD FOREIGN KEY of reviews.js:49-52 / photos.js:47-50
\* is executed; it fails when the referenced table does not exist.
AlterDone(m) ==
  /\ initPc[m] = "altering"
  /\ IF dbUp /\ "businesses" \in tables
     THEN /\ fks' = fks \cup {m}
          /\ initPc' = [initPc EXCEPT ![m] = "done"]
     ELSE /\ initPc' = [initPc EXCEPT ![m] = "failed"]
          /\ UNCHANGED fks
  /\ UNCHANGED <<businesses, tables, dbUp, dbDropped, attempts, connected,
                 sleepMs, reqVars>>

DbComesUp ==
  /\ ~dbUp
  /\ dbUp' = TRUE
  /\ UNCHANGED <<businesses, tables, fks, dbDropped, initPc, attempts, connected,
                 sleepMs, reqVars>>

DbGoesDown ==
  /\ dbUp
  /\ dbUp' = FALSE
  /\ dbDropped' = TRUE
  /\ UNCHANGED <<businesses, tables, fks, initPc, attempts, connected, sleepMs,
                 reqVars>>

\* A first start on an empty database, or a restart on tables that exist;
\* every module has called getConnection while the modules were loaded.
StartupInit ==
  /\ \E again \in BOOLEAN :
       /\ tables = IF again THEN Modules ELSE {}
       /\ businesses = IF again THEN BizRows(1) ELSE {}
       /\ fks \in IF again THEN FkOutcomes ELSE {{}}
  /\ reviews = {}
  /\ photos = {}
  /\ autoInc = [businesses |-> Cardinality(businesses) + 1, reviews |-> 1,
                photos |-> 1]
  /\ posted = "undefined"
  /\ modified = "undefined"
  /\ req = [s \in Slots |-> IdleReq]
  /\ served = 0
  /\ deleted = {}
  /\ dbUp \in BOOLEAN
  /\ dbDropped = FALSE
  /\ initPc = [m \in Modules |-> "connecting"]
  /\ attempts = [m \in Modules |-> 1]
  /\ connected = {}
  /\ sleepMs = [m \in Modules |-> 0]

InitStep(m) == Attempt(m) \/ Wake(m) \/ CreateDone(m) \/ AlterDone(m)

NextStartup ==
  \/ \E m \in Modules : Attempt(m)
  \/ \E m \in Modules : Wake(m)
  \/ \E m \in Modules : CreateDone(m)
  \/ \E m \in {"reviews", "photos"} : AlterDone(m)
  \/ DbComesUp
  \/ DbGoesDown

SpecStartup == StartupInit /\ [][NextStartup]_vars

\* The event loop runs every settled promise's continuation and every
\* expired timer.
FairStartup == SpecStartup /\ \A m \in Modules : WF_vars(InitStep(m))

(***************************************************************************)
(* Claims about the review handlers.                                       *)
(***************************************************************************)
Answered(s, k) == req[s].kind = k /\ req[s].pc = "done"

\* C1: in every reachable state of the reviews table there is at most one
\* review row per (userid, businessid) pair.
C1_OneReviewPerPair ==
  \A r1, r2 \in reviews :
    (r1.userid = r2.userid /\ r1.businessid = r2.businessid) => r1 = r2

\* C2: a valid POST /reviews that runs with no other request in flight while
\* a review of the same (userid, businessid) exists is answered 403, never
\* 201, and inserts no row.
C2_SequentialDuplicateRejected ==
  \A s \in Slots :
    (Answered(s, "revPost") /\ req[s].status # 400 /\ req[s].alone /\ req[s].pre)
      => (req[s].status = 403 /\ ~req[s].wrote /\ req[s].newId = 0)

C2_Witness ==
  \E s \in Slots :
    /\ Answered(s, "revPost") /\ req[s].alone /\ req[s].pre /\ req[s].dup
    /\ req[s].status = 403
    /\ SamePair(req[s].uid, req[s].bid) # {}

\* C3: a valid PUT /reviews/:reviewID on an existing review whose body
\* carries a userid or businessid different from the stored row's is
\* answered 403 and leaves the stored row unchanged.
C3_OwnershipChangeRejected ==
  \A s \in Slots :
    (Answered(s, "revPut") /\ req[s].status # 400 /\ req[s].pre)
      => (req[s].status = 403 /\ ~req[s].wrote)

\* C7: a review POST or PUT is answered 403 only if its own business rule
\* was violated (POST: a review of its pair existed at its check; PUT: its
\* userid/businessid differ from the stored row), and a request whose INSERT
\* or UPDATE failed with a database error is answered 500.
RuleViolated(s) ==
  IF req[s].kind = "revPost" THEN req[s].dup ELSE req[s].pre

C7_FlagsScopedToRequest ==
  \A s \in Slots :
    (req[s].pc = "done" /\ req[s].kind \in {"revPost", "revPut"})
      => /\ (req[s].status = 403 => RuleViolated(s))
         /\ (req[s].dbErr => req[s].status = 500)

(***************************************************************************)
(* Claims about the businesses handlers.                                   *)
(***************************************************************************)
\* the page the client asked for; an absent or non-numeric page asks for 1
Requested(s) == IF req[s].nan THEN 1 ELSE req[s].asked

Listed(s) == Answered(s, "bizList") /\ req[s].status = 200

IsCeilOfTenths(pages, count) ==
  pages * 10 >= count /\ (pages - 1) * 10 < count

ClampedInto(s) ==
  /\ (Requested(s) >= 1 /\ Requested(s) <= req[s].totalPages
        => req[s].page = Requested(s))
  /\ (Requested(s) < 1 => req[s].page = 1)
  /\ (Requested(s) > req[s].totalPages => req[s].page = req[s].totalPages)

\* C4 as claimed: for every row count >= 0 and every requested page the list
\* response reports pageSize = 10, totalPages = ceil(count/10) and a page
\* with 1 <= page <= totalPages: the requested page if it is in that range,
\* 1 if it is below, totalPages if it is above.
C4_PageClampedAsClaimed ==
  \A s \in Slots :
    Listed(s) =>
      /\ req[s].pageSize = 10
      /\ IsCeilOfTenths(req[s].totalPages, req[s].count)
      /\ 1 <= req[s].page /\ req[s].page <= req[s].totalPages
      /\ ClampedInto(s)

\* C4 as amended: pageSize = 10 and totalPages = ceil(count/10) always; for
\* count = 0 the response reports totalPages = 0 and page = 1; for count >= 1
\* it reports 1 <= page <= totalPages, and the page is the requested page
\* clamped into that range when the table held the same number of rows at
\* both COUNT queries of the listing.
C4_PageClamped ==
  \A s \in Slots :
    Listed(s) =>
      /\ req[s].pageSize = 10
      /\ IsCeilOfTenths(req[s].totalPages, req[s].count)
      /\ IF req[s].count = 0
         THEN req[s].page = 1 /\ req[s].totalPages = 0
         ELSE /\ 1 <= req[s].page /\ req[s].page <= req[s].totalPages
              /\ (req[s].count1 = req[s].count => ClampedInto(s))

C4_Witness ==
  \E s \in Slots :
    /\ Listed(s) /\ req[s].count1 = req[s].count
    /\ req[s].count > 20 /\ Requested(s) > req[s].totalPages
    /\ req[s].page = 3

\* C11: every list response is consistent with itself, also when creates and
\* deletes run between the listing's COUNT and SELECT queries: the offset
\* used is (page - 1) * 10 >= 0 for the reported page, and the number of rows
\* returned is min(10, count - (page - 1) * 10) for the reported count, so
\* the page is not empty when count > 0.
C11_ListResponseConsistent ==
  \A s \in Slots :
    Listed(s) =>
      /\ req[s].offset = (req[s].page - 1) * 10
      /\ req[s].offset >= 0
      /\ req[s].rows = Min(10, req[s].count - (req[s].page - 1) * 10)
      /\ (req[s].count > 0 => req[s].rows > 0)

\* C5: POST /businesses with every required field present answers 201 with
\* a positive id and adds exactly one row; with a required field missing it
\* answers 400 and adds nothing.
C5_CreateBusiness ==
  \A s \in Slots :
    Answered(s, "bizPost") =>
      IF req[s].pre
      THEN req[s].status = 201 /\ req[s].newId >= 1 /\ req[s].wrote
           /\ req[s].added = 1
      ELSE req[s].status = 400 /\ ~req[s].wrote /\ req[s].newId = 0
           /\ req[s].added = 0

C5_Witness ==
  \E s \in Slots :
    /\ Answered(s, "bizPost") /\ req[s].pre /\ req[s].status = 201
    /\ \E b \in businesses : b.id = req[s].newId

BizKinds == {"bizList", "bizPost", "bizGet", "bizPut", "bizDel"}

\* C6: on every businesses endpoint a request one of whose queries failed is
\* answered 500.
C6_DbFailureIs500 ==
  \A s \in Slots :
    (req[s].pc = "done" /\ req[s].kind \in BizKinds /\ req[s].dbErr)
      => req[s].status = 500

(***************************************************************************)
(* Claims about DELETE and GET.                                            *)
(***************************************************************************)
DelKinds == {"bizDel", "revDel", "phDel"}
GetKinds == {"bizGet", "revGet", "phGet"}

\* C8 as claimed: DELETE of an existing id answers 204 and removes exactly
\* that row, DELETE of a missing id falls through to not-found, and a GET
\* of an id deleted earlier falls through to not-found.
C8_DeleteThenGetAsClaimed ==
  \A s \in Slots :
    /\ (req[s].pc = "done" /\ req[s].kind \in DelKinds) =>
         IF req[s].pre THEN req[s].status = 204 /\ req[s].wrote
         ELSE req[s].status = NotFound /\ ~req[s].wrote
    /\ (req[s].pc = "done" /\ req[s].kind \in GetKinds /\ req[s].pre) =>
         req[s].status = NotFound

\* C8 as amended: the same, except that DELETE of a business that a review
\* or photo references while the foreign key is in place answers 500 and
\* removes nothing.
C8_DeleteThenGet ==
  \A s \in Slots :
    /\ (req[s].pc = "done" /\ req[s].kind \in DelKinds) =>
         IF req[s].pre /\ req[s].kind = "bizDel" /\ req[s].dup
         THEN req[s].status = 500 /\ ~req[s].wrote
              /\ RowsWithId(businesses, req[s].id) # {}
         ELSE IF req[s].pre THEN req[s].status = 204 /\ req[s].wrote
         ELSE req[s].status = NotFound /\ ~req[s].wrote
    /\ (req[s].pc = "done" /\ req[s].kind \in GetKinds /\ req[s].pre) =>
         req[s].status = NotFound

C8_Witness ==
  /\ <<"photos", 1>> \in deleted
  /\ <<"businesses", 2>> \in deleted
  /\ \E s \in Slots :
       /\ Answered(s, "phGet") /\ req[s].id = 1 /\ req[s].pre
       /\ req[s].status = NotFound

(***************************************************************************)
(* Claims about the bootstrap.                                             *)
(***************************************************************************)
CreateIssued == initPc["businesses"] \in {"creating", "done", "failed"}

BusinessesCreated ==
  initPc["businesses"] = "done" /\ "businesses" \in tables

C10_AlterAfterBusinesses ==
  \A m \in {"reviews", "photos"} :
    initPc[m] = "altering" => "businesses" \in tables

=============================================================================
